---- MODULE Spec2Model ----
(***************************************************************************)
(* A model of pymongokit: BaseDocument (documents.py) and BaseCollection   *)
(* (collections.py) running against a document store and an error handler. *)
(*                                                                         *)
(* Values are pairs <<tag, n>>: <<"oid", n>> is an ObjectId, <<"str", n>>  *)
(* a string (the string number n), <<"null", 0>> is Python's None.         *)
(* Documents are functions from field names to values.                     *)
(***************************************************************************)
EXTENDS Integers, Sequences, FiniteSets, TLC

VARIABLES store, nextOid, policy, op, ret, calls, handled, raw, rec, ser, phase

vars == <<store, nextOid, policy, op, ret, calls, handled, raw, rec, ser, phase>>

\* ---------------------------------------------------------------- bounds
MaxOid == 2
MaxBatch == 2

\* ---------------------------------------------------------------- values
Oid(n) == <<"oid", n>>
Text(n) == <<"str", n>>
NullValue == <<"null", 0>>
None == <<"none", 0>>
EmptyDoc == [k \in {} |-> NullValue]

Min(a, b) == IF a < b THEN a ELSE b
Max(a, b) == IF a > b THEN a ELSE b

\* str(x): an ObjectId becomes its hex string, a string stays itself
Str(x) == IF x[1] = "oid" THEN Text(x[2])
          ELSE IF x[1] = "null" THEN Text(0)
          ELSE x

ExcKinds == {"ValidationError", "TypeError", "StoreError",
             "AttributeError", "UnboundLocalError"}

\* ------------------------------------------------------- Document Model
\* the fields declared by the bound document_model: BaseDocument's mongoid
\* plus one required string field of the subclass
SchemaFields == {"name"}
ModelFields == {"mongoid"} \cup SchemaFields

\* root_validator(pre=True): values['mongoid'] = str(values.pop('_id'))
HandleObjectId(values) ==
    IF "_id" \in DOMAIN values
    THEN [k \in (DOMAIN values \ {"_id"}) \cup {"mongoid"} |->
            IF k = "mongoid" THEN Str(values["_id"]) ELSE values[k]]
    ELSE values

\* typed validation of the fields: required ones present, strings are strings
FieldsValid(values) ==
    /\ \A k \in SchemaFields : k \in DOMAIN values /\ values[k][1] = "str"
    /\ "mongoid" \in DOMAIN values => values["mongoid"][1] \in {"str", "null"}

\* document_model(**doc): <<"rec", record>> or <<"exc", "ValidationError">>;
\* keys that are not fields are ignored, Optional fields default to None
DocumentModel(doc) ==
    LET values == HandleObjectId(doc) IN
    IF FieldsValid(values)
    THEN <<"rec", [k \in ModelFields |->
                     IF k \in DOMAIN values THEN values[k] ELSE NullValue]>>
    ELSE <<"exc", "ValidationError">>

IsValid(doc) == DocumentModel(doc)[1] = "rec"

DictKeepsMongoid(record) == record

\* BaseDocument.dict: every field but mongoid
Dict(record) == [k \in DOMAIN record \ {"mongoid"} |-> record[k]]

\* ------------------------------------------------------------ the store
Matches(d, q) == \A k \in DOMAIN q : k \in DOMAIN d /\ d[k] = q[k]

IdsIn(docs) == {docs[i]["_id"] : i \in 1..Len(docs)}

RECURSIVE RunPipeline(_, _)
RunPipeline(docs, pipeline) ==
    IF pipeline = <<>> THEN docs
    ELSE LET stage == Head(pipeline) IN
         RunPipeline(
            IF stage[1] = "$match"
            THEN SelectSeq(docs, LAMBDA d : Matches(d, stage[2]))
            ELSE SubSeq(docs, 1, Min(stage[2], Len(docs))),
            Tail(pipeline))

\* the running effect of one operation: its result so far, the store calls it
\* has issued, the failures handed to the handler, and the store's contents
Raise(c, kind) == [c EXCEPT !.ret = <<"exc", kind>>]
Return(c, v) == [c EXCEPT !.ret = v]
Called(c, fn, arg) == [c EXCEPT !.calls = Append(@, [fn |-> fn, arg |-> arg])]

\* collection.aggregate(pipeline)
StoreAggregate(c, pipeline, fail) ==
    LET c1 == Called(c, "aggregate", pipeline) IN
    IF fail THEN Raise(c1, "StoreError")
    ELSE Return(c1, <<"list", RunPipeline(c1.store, pipeline)>>)

\* collection.insert_many(batch): documents are written in order; a document
\* without _id gets a fresh ObjectId; the write stops at the first failure
RECURSIVE InsertDocs(_, _, _, _)
InsertDocs(c, batch, okCount, ids) ==
    IF batch = <<>> THEN Return(c, <<"ack", [inserted_ids |-> ids]>>)
    ELSE LET d == Head(batch) IN
         IF okCount = 0 \/ ("_id" \in DOMAIN d /\ d["_id"] \in IdsIn(c.store))
         THEN Raise(c, "StoreError")
         ELSE LET id == IF "_id" \in DOMAIN d THEN d["_id"] ELSE Oid(c.nextOid + 1)
                  stored == [k \in DOMAIN d \cup {"_id"} |->
                               IF k = "_id" THEN id ELSE d[k]]
              IN InsertDocs([c EXCEPT !.store = Append(@, stored),
                                      !.nextOid = Max(@, id[2])],
                            Tail(batch), okCount - 1, Append(ids, id))

StoreInsertMany(c, batch, okCount) ==
    LET c1 == Called(c, "insert_many", batch) IN
    IF batch = <<>> THEN Raise(c1, "TypeError")
    ELSE InsertDocs(c1, batch, okCount, <<>>)

FirstMatch(docs, q) ==
    IF \E i \in 1..Len(docs) : Matches(docs[i], q)
    THEN {CHOOSE i \in 1..Len(docs) :
            /\ Matches(docs[i], q)
            /\ \A j \in 1..(i - 1) : ~Matches(docs[j], q)}
    ELSE {}

AllMatches(docs, q) == {i \in 1..Len(docs) : Matches(docs[i], q)}

Targets(docs, fn, q) ==
    IF fn \in {"update_one", "delete_one"} THEN FirstMatch(docs, q)
    ELSE AllMatches(docs, q)

RECURSIVE Without(_, _)
Without(docs, idx) ==
    IF docs = <<>> THEN <<>>
    ELSE LET rest == Without(SubSeq(docs, 1, Len(docs) - 1), idx) IN
         IF Len(docs) \in idx THEN rest ELSE Append(rest, docs[Len(docs)])

\* collection.update_one / update_many(filter=query, update={'$set': data})
StoreUpdate(c, fn, query, update, fail) ==
    LET c1 == Called(c, fn, <<query, update>>)
        idx == Targets(c1.store, fn, query)
        data == update[2]
    IN IF fail THEN Raise(c1, "StoreError")
       ELSE [c1 EXCEPT
               !.store = [i \in 1..Len(c1.store) |->
                            IF i \in idx
                            THEN [k \in DOMAIN c1.store[i] \cup DOMAIN data |->
                                    IF k \in DOMAIN data THEN data[k]
                                    ELSE c1.store[i][k]]
                            ELSE c1.store[i]],
               !.ret = <<"ack", [matched_count |-> Cardinality(idx)]>>]

\* collection.delete_one / delete_many(filter=query)
StoreDelete(c, fn, query, fail) ==
    LET c1 == Called(c, fn, query)
        idx == Targets(c1.store, fn, query)
    IN IF fail THEN Raise(c1, "StoreError")
       ELSE [c1 EXCEPT !.store = Without(c1.store, idx),
                       !.ret = <<"ack", [deleted_count |-> Cardinality(idx)]>>]

\* ------------------------------------------------- Collection Mediator
\* the failures that are raised inside an error-handling boundary
HandledKinds == {"ValidationError", "TypeError", "StoreError"}
Dispositions == {"swallow", "reraise"}

\* the attributes a BaseCollection instance has
BaseCollectionAttrs ==
    {"collection", "document_model", "error_handler",
     "_execute_with_error_handling", "_validate_docs", "_execute_find",
     "_execute_insertion", "_execute_update", "_execute_delete",
     "_handle_result", "find", "find_by_id", "insert_many", "insert_one",
     "insert_by_id", "update_one", "update_many", "update_by_id",
     "delete_one", "delete_many", "delete_by_id"}

Ctx0 == [ret |-> None, calls |-> <<>>, handled |-> <<>>,
         store |-> store, nextOid |-> nextOid]

\* try: return func(...)  except Exception as e: error_handler.handle_error(e)
\* w is the effect of func; the handler either returns (and the boundary then
\* returns None) or raises
ExecuteWithErrorHandling(w) ==
    IF w.ret[1] = "exc"
    THEN LET h == [w EXCEPT !.handled = Append(@, w.ret[2])] IN
         IF policy[w.ret[2]] = "swallow" THEN Return(h, None) ELSE h
    ELSE w

AuxFunc(c, docs) ==
    IF docs[1] # "list" THEN Raise(c, "TypeError")
    ELSE IF \E i \in 1..Len(docs[2]) : ~IsValid(docs[2][i])
    THEN Raise(c, "ValidationError")
    ELSE Return(c, <<"list", [i \in 1..Len(docs[2]) |->
                                DocumentModel(docs[2][i])[2]]>>)

ValidateDocsSkipInvalid(c, docs) ==
    ExecuteWithErrorHandling(
        IF docs[1] # "list" THEN Raise(c, "TypeError")
        ELSE LET good == SelectSeq(docs[2], IsValid) IN
             Return(c, <<"list", [i \in 1..Len(good) |->
                                    DocumentModel(good[i])[2]]>>))

ValidateDocs(c, docs) == ExecuteWithErrorHandling(AuxFunc(c, docs))

\* pipeline_steps: None, [] or a list of stages
NoSteps == <<"none", <<>>>>
EmptySteps == <<"list", <<>>>>
LimitSteps == <<"list", <<<<"$limit", 1>>>>>>

Truthy(steps) == steps[1] = "list" /\ steps[2] # <<>>

FindAgg(c, query, pipeline_steps, fail) ==
    LET pipeline == <<<<"$match", query>>>> IN
    StoreAggregate(c,
                   IF Truthy(pipeline_steps)
                   THEN pipeline \o pipeline_steps[2] ELSE pipeline,
                   fail)

ExecuteFind(c, query, pipeline_steps, fail) ==
    ExecuteWithErrorHandling(FindAgg(c, query, pipeline_steps, fail))

\* docs is <<"dict", d>> for a single mapping and <<"list", seq>> for a list
InsertDocuments(c, docs, okCount) ==
    IF docs[1] = "dict"
    THEN LET validated_doc == DocumentModel(docs[2]) IN
         IF validated_doc[1] = "exc" THEN Raise(c, validated_doc[2])
         ELSE StoreInsertMany(c, <<Dict(validated_doc[2])>>, okCount)
    ELSE LET v == ValidateDocs(c, docs) IN
         IF v.ret[1] = "exc" THEN v
         ELSE IF v.ret[1] # "list" THEN Raise(v, "TypeError")
         ELSE StoreInsertMany(v, [i \in 1..Len(v.ret[2]) |-> Dict(v.ret[2][i])],
                              okCount)

ExecuteInsertion(c, docs, okCount) ==
    ExecuteWithErrorHandling(InsertDocuments(c, docs, okCount))

\* post-processing functions a caller may pass as handle_func
ApplyHandle(c, func) ==
    IF c.ret[1] = "list" THEN Return(c, <<"val", Len(c.ret[2])>>)
    ELSE Raise(c, "TypeError")

\* r.ret is the result argument
HandleResult(r, func, validate) ==
    LET v == IF validate THEN ValidateDocs(r, r.ret) ELSE r IN
    IF validate /\ v.ret[1] = "exc" THEN v
    ELSE IF func # "none"
    THEN IF ~validate THEN Raise(v, "UnboundLocalError")
         ELSE ApplyHandle(v, func)
    ELSE Return(v, r.ret)

Find(c, query, pipeline_steps, handle_func, fail) ==
    LET r == ExecuteFind(c, query, pipeline_steps, fail) IN
    IF r.ret[1] = "exc" THEN r ELSE HandleResult(r, handle_func, FALSE)

FindByIdWrongKey(c, document_id, pipeline_steps, handle_func, fail) ==
    Find(c, "mongoid" :> document_id, pipeline_steps, handle_func, fail)

FindById(c, document_id, pipeline_steps, handle_func, fail) ==
    Find(c, "_id" :> document_id, pipeline_steps, handle_func, fail)

InsertMany(c, docs, okCount) == ExecuteInsertion(c, <<"list", docs>>, okCount)

InsertOne(c, doc, okCount) == ExecuteInsertion(c, <<"dict", doc>>, okCount)

InsertById(c, document_id, document_data, okCount) ==
    InsertOne(c, [k \in DOMAIN document_data \cup {"_id"} |->
                    IF k = "_id" THEN document_id ELSE document_data[k]],
              okCount)

\* func is "update_one" or "update_many"
ExecuteUpdate(c, func, query, update_data, fail) ==
    IF "execute_with_handling" \notin BaseCollectionAttrs
    THEN Raise(c, "AttributeError")
    ELSE LET result == ExecuteWithErrorHandling(
                 StoreUpdate(c, func, query, <<"$set", update_data>>, fail)) IN
         IF result.ret[1] = "exc" THEN result
         ELSE IF result.ret[1] # "ack" THEN Raise(result, "AttributeError")
         ELSE IF result.ret[2].matched_count > 0
         THEN IF func = "update_one"
              THEN Raise(result, "AttributeError")
              ELSE Find(result, query, EmptySteps, "none", fail)
         ELSE Return(result, IF func = "update_one" THEN None
                             ELSE <<"list", <<>>>>)

UpdateOne(c, query, update_data, fail) ==
    ExecuteUpdate(c, "update_one", query, update_data, fail)

UpdateMany(c, query, update_data, fail) ==
    ExecuteUpdate(c, "update_many", query, update_data, fail)

UpdateById(c, document_id, update_data, fail) ==
    UpdateOne(c, "_id" :> document_id, update_data, fail)

ExecuteDelete(c, func, query, fail) ==
    ExecuteWithErrorHandling(StoreDelete(c, func, query, fail))

DeleteOne(c, query, fail) == ExecuteDelete(c, "delete_one", query, fail)

DeleteMany(c, query, fail) == ExecuteDelete(c, "delete_many", query, fail)

DeleteById(c, document_id, fail) == DeleteOne(c, "_id" :> document_id, fail)

\* --------------------------------------------------------------- inputs
GoodName == Text(7)
PatchName == Text(8)

RawDocs == {"name" :> GoodName, EmptyDoc}

Batches == UNION {[1..n -> RawDocs] : n \in 0..MaxBatch}

InputIds == {Oid(n) : n \in 1..MaxOid}

Queries == {EmptyDoc, "name" :> GoodName}
           \cup {"_id" :> i : i \in InputIds}

Patches == {"name" :> PatchName}


HandleFuncs == {"none", "len"}

\* -------------------------------------------------------------- actions
\* one operation: called with arg, it runs to its result r
Do(name, arg, env, c) ==
    \E r \in {c} :
        /\ r.nextOid <= MaxOid
        /\ op' = [name |-> name, arg |-> arg, env |-> env]
        /\ ret' = r.ret
        /\ calls' = r.calls
        /\ handled' = r.handled
        /\ store' = r.store
        /\ nextOid' = r.nextOid
        /\ UNCHANGED <<policy, raw, rec, ser, phase>>

FindOp ==
    \E q \in Queries, s \in {EmptySteps, LimitSteps}, h \in HandleFuncs,
       fail \in BOOLEAN :
        Do("find", <<q, s, h>>, fail, Find(Ctx0, q, s, h, fail))

FindByIdOp ==
    \E i \in InputIds, s \in {NoSteps, LimitSteps}, h \in HandleFuncs,
       fail \in BOOLEAN :
        Do("find_by_id", <<i, s, h>>, fail, FindById(Ctx0, i, s, h, fail))

InsertManyOp ==
    \E docs \in Batches, okCount \in 0..MaxBatch :
        /\ okCount <= Len(docs)
        /\ Do("insert_many", <<docs>>, okCount, InsertMany(Ctx0, docs, okCount))

InsertOneOp ==
    \E doc \in RawDocs, okCount \in 0..1 :
        Do("insert_one", <<doc>>, okCount, InsertOne(Ctx0, doc, okCount))

InsertByIdOp ==
    \E i \in InputIds, doc \in RawDocs, okCount \in 0..1 :
        Do("insert_by_id", <<i, doc>>, okCount,
              InsertById(Ctx0, i, doc, okCount))

UpdateOneOp ==
    \E q \in Queries, p \in Patches, fail \in BOOLEAN :
        Do("update_one", <<q, p>>, fail, UpdateOne(Ctx0, q, p, fail))

UpdateManyOp ==
    \E q \in Queries, p \in Patches, fail \in BOOLEAN :
        Do("update_many", <<q, p>>, fail, UpdateMany(Ctx0, q, p, fail))

UpdateByIdOp ==
    \E i \in InputIds, p \in Patches, fail \in BOOLEAN :
        Do("update_by_id", <<i, p>>, fail, UpdateById(Ctx0, i, p, fail))

DeleteOneOp ==
    \E q \in Queries, fail \in BOOLEAN :
        Do("delete_one", <<q>>, fail, DeleteOne(Ctx0, q, fail))

DeleteManyOp ==
    \E q \in Queries, fail \in BOOLEAN :
        Do("delete_many", <<q>>, fail, DeleteMany(Ctx0, q, fail))

DeleteByIdOp ==
    \E i \in InputIds, fail \in BOOLEAN :
        Do("delete_by_id", <<i>>, fail, DeleteById(Ctx0, i, fail))

Init ==
    /\ store = <<>>
    /\ nextOid = 0
    /\ policy \in [HandledKinds -> Dispositions]
    /\ op = [name |-> "init", arg |-> <<>>, env |-> FALSE]
    /\ ret = None
    /\ calls = <<>>
    /\ handled = <<>>
    /\ raw = EmptyDoc
    /\ rec = None
    /\ ser = None
    /\ phase = "mediator"

Next ==
    \/ FindOp
    \/ FindByIdOp
    \/ InsertManyOp
    \/ InsertOneOp
    \/ InsertByIdOp
    \/ UpdateOneOp
    \/ UpdateManyOp
    \/ UpdateByIdOp
    \/ DeleteOneOp
    \/ DeleteManyOp
    \/ DeleteByIdOp

Spec == Init /\ [][Next]_vars

\* ------------------------------------- the Document Model on its own
DocKeys == {"_id", "mongoid", "name", "extra"}
DocValues == {Oid(1), Oid(2), Text(1), Text(7)}
DocInputs == UNION {[K -> DocValues] : K \in SUBSET DocKeys}

DocInit ==
    /\ raw \in DocInputs
    /\ rec = None
    /\ ser = None
    /\ phase = "input"
    /\ store = <<>>
    /\ nextOid = 0
    /\ policy = [k \in HandledKinds |-> "reraise"]
    /\ op = [name |-> "init", arg |-> <<>>, env |-> FALSE]
    /\ ret = None
    /\ calls = <<>>
    /\ handled = <<>>

DocValidate ==
    /\ phase = "input"
    /\ rec' = DocumentModel(raw)
    /\ phase' = "validated"
    /\ UNCHANGED <<raw, ser, store, nextOid, policy, op, ret, calls, handled>>

DocSerialize ==
    /\ phase = "validated"
    /\ rec[1] = "rec"
    /\ ser' = <<"dict", Dict(rec[2])>>
    /\ phase' = "serialized"
    /\ UNCHANGED <<raw, rec, store, nextOid, policy, op, ret, calls, handled>>

DocNext == DocValidate \/ DocSerialize

DocSpec == DocInit /\ [][DocNext]_vars

\* ------------------------------------------------------------ claims
InsertOps == {"insert_one", "insert_many", "insert_by_id"}

\* the raw documents an insert operation was given
InputDocs(o) ==
    IF o.name = "insert_many" THEN o.arg[1]
    ELSE IF o.name = "insert_one" THEN <<o.arg[1]>>
    ELSE <<o.arg[2]>>

\* a raw document the schema rejects: the required name is missing or no string
Rejected(d) == ~("name" \in DOMAIN d /\ d["name"][1] = "str")

SomeRejected(o) == \E i \in 1..Len(InputDocs(o)) : Rejected(InputDocs(o)[i])

AllSwallowed == \A k \in HandledKinds : policy[k] = "swallow"

MatchCount(docs, q) == Cardinality({i \in 1..Len(docs) : Matches(docs[i], q)})

\* C1: an insert operation given a document that fails validation issues no
\* store call at all and leaves the stored documents as they were, whatever
\* the handler's policy
C1_InvalidInsertNeverReachesStore ==
    [][(op'.name \in InsertOps /\ SomeRejected(op'))
         => (calls' = <<>> /\ store' = store /\ nextOid' = nextOid)]_vars

C1_Witness ==
    /\ op.name = "insert_many"
    /\ Len(op.arg[1]) = 2
    /\ ~Rejected(op.arg[1][1])
    /\ Rejected(op.arg[1][2])
    /\ calls = <<>>
    /\ store # <<>>

\* C2: an update whose filter matches a stored document issues the $set write
\* and then a read-back with the same filter, and returns the read-back
\* documents, never the acknowledgment
C2_UpdateWritesThenReadsBack ==
    [][(/\ op'.name \in {"update_one", "update_many"}
        /\ op'.env = FALSE
        /\ MatchCount(store, op'.arg[1]) > 0)
         => /\ Len(calls') = 2
            /\ calls'[1].fn = op'.name
            /\ calls'[1].arg = <<op'.arg[1], <<"$set", op'.arg[2]>>>>
            /\ calls'[2].fn = "aggregate"
            /\ Head(calls'[2].arg) = <<"$match", op'.arg[1]>>
            /\ ret'[1] \in {"list", "doc"}]_vars

\* C3: an update whose filter matches nothing returns None (update_one) or
\* the empty list (update_many) after exactly one store call, the write
C3_UpdateWithoutMatch ==
    [][(/\ op'.name \in {"update_one", "update_many"}
        /\ op'.env = FALSE
        /\ MatchCount(store, op'.arg[1]) = 0)
         => /\ Len(calls') = 1
            /\ calls'[1].fn = op'.name
            /\ op'.name = "update_one" => ret'[1] = "none"
            /\ op'.name = "update_many" => (ret'[1] = "list" /\ ret'[2] = <<>>)]_vars

\* C4: a failure that leaves an operation has been handed to the handler, and
\* under a handler that swallows every failure no operation raises
C4_EveryFailurePassesTheBoundary ==
    /\ ret[1] = "exc" => (handled # <<>> /\ handled[Len(handled)] = ret[2])
    /\ AllSwallowed => ret[1] # "exc"

\* C5: insert_one returns the validated form of a valid document that the
\* store accepted, and None when validation or the store fails and the
\* handler swallows
C5_InsertOneReturnsValidatedForm ==
    op.name = "insert_one" =>
        /\ (~Rejected(op.arg[1]) /\ op.env = 1)
             => (ret[1] = "rec" /\ ret[2] = DocumentModel(op.arg[1])[2])
        /\ ((Rejected(op.arg[1]) \/ op.env = 0) /\ AllSwallowed)
             => ret[1] = "none"

\* C6: insert_by_id of a valid document submits a one-element batch whose
\* document carries _id = id, and the stored document is then found under id
C6_InsertByIdCarriesIdentity ==
    (op.name = "insert_by_id" /\ ~Rejected(op.arg[2])) =>
        /\ Len(calls) = 1
        /\ calls[1].fn = "insert_many"
        /\ Len(calls[1].arg) = 1
        /\ "_id" \in DOMAIN calls[1].arg[1]
        /\ calls[1].arg[1]["_id"] = op.arg[1]
        /\ op.env = 1 => MatchCount(store, "_id" :> op.arg[1]) = 1

\* C7: find with a post-processing function returns that function applied to
\* the raw matched list and raises nothing
C7_FindAppliesHandleFunc ==
    (op.name = "find" /\ op.arg[3] = "len" /\ op.env = FALSE) =>
        /\ ret[1] = "val"
        /\ ret[2] = Len(RunPipeline(store, <<<<"$match", op.arg[1]>>>>
                                           \o op.arg[2][2]))

\* C8: insert_one(doc) does what insert_many([doc]) does from the same state:
\* the same store calls, the same stored documents, an equivalent result
C8_InsertOneIsInsertManyOfOne ==
    [][op'.name = "insert_one"
         => LET m == InsertMany(Ctx0, <<op'.arg[1]>>, op'.env) IN
            /\ m.calls = calls'
            /\ m.store = store'
            /\ m.ret[1] = ret'[1]
            /\ m.ret = ret']_vars

\* C9: a mapping with _id = X that validates gives a record whose mongoid is
\* the string form of X and which has no _id field; its dict() has neither
\* _id nor mongoid
C9_IdentityMapping ==
    (phase \in {"validated", "serialized"} /\ "_id" \in DOMAIN raw
        /\ rec[1] = "rec") =>
        /\ rec[2]["mongoid"] = <<"str", raw["_id"][2]>>
        /\ "_id" \notin DOMAIN rec[2]
        /\ phase = "serialized"
             => ("_id" \notin DOMAIN ser[2] /\ "mongoid" \notin DOMAIN ser[2])

C9_Witness ==
    /\ phase = "serialized"
    /\ "_id" \in DOMAIN raw
    /\ raw["_id"] = Oid(2)
    /\ "mongoid" \in DOMAIN raw
    /\ DOMAIN ser[2] = SchemaFields

\* C10: find_by_id(id) issues exactly one aggregation, with pipeline
\* [{'$match': {'_id': id}}], and when the store answers returns the list of
\* the stored documents whose _id is id: empty or of exactly one document
C10_FindById ==
    (op.name = "find_by_id" /\ op.arg[2] = NoSteps /\ op.arg[3] = "none") =>
        /\ calls = <<[fn |-> "aggregate",
                      arg |-> <<<<"$match", "_id" :> op.arg[1]>>>>]>>
        /\ op.env = FALSE =>
             /\ ret[1] = "list"
             /\ ret[2] = SelectSeq(store, LAMBDA d : d["_id"] = op.arg[1])
             /\ Len(ret[2]) <= 1
             /\ (\A i \in 1..Len(store) : store[i]["_id"] # op.arg[1])
                  => ret[2] = <<>>

C10_Witness ==
    /\ op.name = "find_by_id"
    /\ op.arg[2] = NoSteps
    /\ op.arg[3] = "none"
    /\ op.env = FALSE
    /\ Len(store) = 2
    /\ Len(ret[2]) = 1
    /\ ret[2][1]["_id"] = op.arg[1]

====
